---- MODULE Spec2Model ----
(***************************************************************************)
(* Model of the email aggregation backend (src/main.py): the IMAP idle     *)
(* loop that feeds process_new_email, the four stages of process_new_email *)
(* (categorize, index, vector add, notify), the search endpoint and the    *)
(* reply suggestor.                                                        *)
(*                                                                         *)
(* Scheduling.  Everything runs on the single asyncio event loop started   *)
(* by uvicorn.run.  An idle task gives the loop away only at               *)
(* `await asyncio.sleep(1)` (main.py:107); process_new_email is a plain    *)
(* function, so one invocation runs from its first to its last statement   *)
(* before any other task or endpoint runs.  The stages of an invocation    *)
(* are separate steps of the model so that the state between two stages    *)
(* is visible, but no other handler is enabled in between.                 *)
(***************************************************************************)
EXTENDS Bags, FiniteSets, Integers, Sequences, TLC

\* ------------------------------------------------------------------ bounds
MaxTasks == 2        \* idle tasks started through /accounts/connect
MaxMail == 2         \* messages that arrive, over all mailboxes
MaxDocs == 2         \* documents written to the "emails" index
MaxKnowledge == 3    \* snippets added to the knowledge collection

\* ------------------------------------------------------- value domains
None == "None"

Accounts == {"a@x.com", "b@x.com"}

\* A text is a sequence of words; what the analyzer of a "text" field and
\* the embedder see of it.
Bodies == { <<"demo", "tuesday">>, <<"pricing">> }
KnowledgeTexts ==
    { <<"demo", "booking">>, <<"demo", "plan">>, <<"pricing", "plan">> }
QueryTexts == { <<"pricing", "booking">> }
QueryAccounts == {"a@x.com"}
QueryCategories == {"Interested"}

\* Email.folder has the default "INBOX" (main.py:56); fetch_emails never
\* sets another one.
DefaultFolder == "INBOX"
Folders == {"SENT"}

\* The closed enumeration of the category labels, in the spelling the
\* prompt (main.py:167-171) and the frontend (frontend.py:34,57) use.
CategoryLabels ==
    {"Interested", "Meeting Booked", "Not Interested", "Spam",
     "Out of Office", "Uncategorized"}

\* What the chat completion can answer: the model is asked to respond with
\* a category name only, and nothing makes it do so.
ModelOutputs == {"Interested", "Category: Interested"}

\* ---------------------------------------------------------------- Email
\* class Email (main.py:49-58); subject, from_, to and date are copied
\* from the message and never read by a decision, so they are constants.
Email(a, u, b) ==
    [uid |-> u, subject |-> "Re: demo", body |-> b, from_ |-> "lead@y.com",
     to |-> a, date |-> "2024-01-01T10:00:00", folder |-> DefaultFolder,
     account |-> a, category |-> None]

NoEmail == Email(None, None, <<>>)

\* index_email (main.py:135-136): email.dict() with from_ renamed to from.
Doc(email) ==
    [uid |-> email.uid, subject |-> email.subject, body |-> email.body,
     from |-> email.from_, to |-> email.to, date |-> email.date,
     folder |-> email.folder,
     account |-> email.account, category |-> email.category]

VARIABLES
    mailbox,      \* account -> sequence of bodies: message i has uid str(i)
    tasks,        \* 1..MaxTasks -> idle task: [account, pc, event, batch]
    inv,          \* the running, or the most recent, process_new_email call
    docs,         \* bag of documents of the "emails" index
    collection,   \* config.email_collection: set of [id, document, category]
    knowledge,    \* config.knowledge_collection: sequence of [id, document]
    adding,       \* caller -> the add_knowledge call it is in, or NoAdd
    response      \* the response of the endpoint being served, or NoResponse

vars == <<mailbox, tasks, inv, docs, collection, knowledge, adding, response>>

\* ----------------------------------------------------------- idle tasks
\* One background task per call of /accounts/connect (main.py:287).
\*   pc    : "unused" (not started), "wait" (in mailbox.idle.wait or in
\*           asyncio.sleep), "batch" (in the for loop of main.py:104),
\*           "dead" (an exception left the coroutine)
\*   event : the server has sent an untagged response since the last wait
\*   batch : the emails of new_emails not yet handed to the callback
UnusedTask == [account |-> None, pc |-> "unused", event |-> FALSE, batch |-> <<>>]

TaskIds == 1..MaxTasks

\* The event loop is free: no idle task is inside its for loop, no
\* process_new_email call is between two stages, no endpoint is being served.
NoResponse == [kind |-> "none"]

InvFinished == inv.pc \in {"idle", "returned"}

LoopFree ==
    /\ \A t \in TaskIds : tasks[t].pc # "batch"
    /\ InvFinished
    /\ response = NoResponse

\* The call record of process_new_email.
\*   pc            : the statement the call is at, or "returned" / "raised"
\*   raisedAt      : the stage whose exception left the function
\*   indexAttempts : calls of es.index made
\*   indexed       : es.index returned
\*   stored        : email_collection.add returned
\*   slack, webhook: "None" (sink not called), "ok", or the exception the
\*                   sink's client raised
\*   timedOut      : the categorizer's model call got no answer
\* The callers of add_knowledge that can be inside it at one time, and
\* the call of one of them: the id it has computed and its text.
Callers == {"c1", "c2"}
NoAdd == [id |-> None, text |-> <<>>]

NoInv ==
    [task |-> 0, email |-> NoEmail, pc |-> "idle", raisedAt |-> None,
     indexAttempts |-> 0, indexed |-> FALSE, stored |-> FALSE,
     slack |-> None, webhook |-> None, timedOut |-> FALSE]

Init ==
    /\ mailbox = [a \in Accounts |-> <<>>]
    /\ tasks = [t \in TaskIds |-> UnusedTask]
    /\ inv = NoInv
    /\ docs = EmptyBag
    /\ collection = {}
    /\ knowledge = <<>>
    /\ adding = [c \in Callers |-> NoAdd]
    /\ response = NoResponse

\* POST /accounts/connect (main.py:284-288) and the start of idle
\* (main.py:98): a new idle task for the account.
ConnectAccount(a) ==
    /\ LoopFree
    /\ \E t \in TaskIds :
        /\ tasks[t].pc = "unused"
        /\ \A s \in TaskIds : s < t => tasks[s].pc # "unused"
        /\ tasks' = [tasks EXCEPT ![t] =
                        [account |-> a, pc |-> "wait", event |-> FALSE,
                         batch |-> <<>>]]
    /\ UNCHANGED <<mailbox, inv, docs, collection, knowledge, adding, response>>

RECURSIVE SumLen(_, _)
SumLen(f, S) ==
    IF S = {} THEN 0
    ELSE LET x == CHOOSE y \in S : TRUE IN Len(f[x]) + SumLen(f, S \ {x})

\* The environment: a message arrives in the mailbox of an account; the
\* server gives it the next uid and tells the idling connections.  Nothing
\* reads the mailbox before the next wait returns, so an arrival during a
\* batch is taken when the batch is over.
MailArrives(a, b) ==
    /\ LoopFree
    /\ SumLen(mailbox, Accounts) < MaxMail
    /\ mailbox' = [mailbox EXCEPT ![a] = Append(@, b)]
    /\ tasks' = [t \in TaskIds |->
                    IF tasks[t].account = a /\ tasks[t].pc \in {"wait", "batch"}
                    THEN [tasks[t] EXCEPT !.event = TRUE]
                    ELSE tasks[t]]
    /\ UNCHANGED <<inv, docs, collection, knowledge, adding, response>>

\* fetch_emails (main.py:77-94): every message of the last day, the ones
\* an earlier fetch has returned included, in the order of the mailbox.
FetchEmails(a) ==
    [i \in 1..Len(mailbox[a]) |-> Email(a, ToString(i), mailbox[a][i])]

\* idle, main.py:101-103: wait returns responses, new_emails is fetched.
\* (A wait that times out goes to the sleep and back: no change of state.)
IdleFetch(t) ==
    /\ LoopFree
    /\ tasks[t].pc = "wait"
    /\ tasks[t].event
    /\ tasks' = [tasks EXCEPT ![t] =
                    [@ EXCEPT !.pc = "batch", !.event = FALSE,
                              !.batch = FetchEmails(tasks[t].account)]]
    /\ UNCHANGED <<mailbox, inv, docs, collection, knowledge, adding, response>>

\* idle, main.py:104-105: callback(email) for the next email of the batch;
\* process_new_email starts (main.py:301).
Callback(t) ==
    /\ tasks[t].pc = "batch"
    /\ tasks[t].batch # <<>>
    /\ InvFinished
    /\ BagCardinality(docs) < MaxDocs
    /\ inv' = [NoInv EXCEPT !.task = t, !.email = Head(tasks[t].batch),
                            !.pc = "categorize"]
    /\ tasks' = [tasks EXCEPT ![t].batch = Tail(@)]
    /\ UNCHANGED <<mailbox, docs, collection, knowledge, adding, response>>

\* idle, main.py:107: the for loop is over, the task sleeps and other
\* tasks and endpoints run.
IdleSleep(t) ==
    /\ tasks[t].pc = "batch"
    /\ tasks[t].batch = <<>>
    /\ InvFinished
    /\ tasks' = [tasks EXCEPT ![t].pc = "wait"]
    /\ inv' = NoInv
    /\ UNCHANGED <<mailbox, docs, collection, knowledge, adding, response>>

\* idle, main.py:104-105: callback(email) raised.  Neither the for loop
\* nor the while loop has a try: the exception leaves the coroutine, and
\* the task ends with the rest of its batch.
IdleRaised(t) ==
    /\ tasks[t].pc = "batch"
    /\ inv.task = t
    /\ inv.pc = "raised"
    /\ tasks' = [tasks EXCEPT ![t] = [@ EXCEPT !.pc = "dead", !.batch = <<>>]]
    /\ inv' = NoInv
    /\ UNCHANGED <<mailbox, docs, collection, knowledge, adding, response>>

\* ------------------------------------------------- process_new_email
\* An exception raised in a stage is not caught in process_new_email
\* (main.py:301-319): it ends the call.
Raise(call, stage) ==
    /\ inv' = [call EXCEPT !.pc = "raised", !.raisedAt = stage]
    /\ UNCHANGED tasks

\* categorizer.categorize (main.py:165-186), called at main.py:304: the
\* content of the model's answer is returned as it is and becomes the
\* category; an error of the call (timeout, rate limit, no choice in the
\* response) is raised.
Categorize(out) == out

\* A call the model never answers, with a client that waits for ever.
ClientWaitsForEver(call) == [call EXCEPT !.pc = "hung", !.timedOut = TRUE]

\* config.openai = openai.OpenAI(api_key=...) (main.py:32) is made with
\* the client's default timeout and the call of main.py:179-183 gives
\* none: a call the model never answers ends in the client's timeout
\* error, raised like any other error of the call.
ClientTimeout(call) ==
    [call EXCEPT !.pc = "raised", !.raisedAt = "categorize", !.timedOut = TRUE]

\* A pipeline that notifies as soon as the label is known.
NotifyBeforeIndex(email) ==
    IF email.category = "Interested" THEN "slack" ELSE "index"

\* main.py:304-307: the statement after the categorize is the index write.
AfterCategorize(email) == "index"

ProcessCategorize ==
    /\ inv.pc = "categorize"
    /\ \/ \E out \in ModelOutputs :
            LET labelled == [inv.email EXCEPT !.category = Categorize(out)]
            IN  /\ inv' = [inv EXCEPT !.email = labelled,
                                      !.pc = AfterCategorize(labelled)]
                /\ UNCHANGED tasks
       \/ Raise(inv, "categorize")
       \/ /\ inv' = ClientTimeout(inv)
          /\ UNCHANGED tasks
    /\ UNCHANGED <<mailbox, docs, collection, knowledge, adding, response>>

\* es.index(index="emails", document=doc) (main.py:137): no id is given,
\* so the index makes a new document under a generated id.
IndexEmail(index, email) == index (+) SetToBag({Doc(email)})

\* search_service.index_email(email), main.py:307: one call of es.index;
\* its error is raised.
ProcessIndex ==
    /\ inv.pc = "index"
    /\ \/ /\ docs' = IndexEmail(docs, inv.email)
          /\ inv' = [inv EXCEPT !.indexAttempts = @ + 1, !.indexed = TRUE,
                                !.pc = "vector_add"]
          /\ UNCHANGED tasks
       \/ /\ Raise([inv EXCEPT !.indexAttempts = @ + 1], "index")
          /\ UNCHANGED docs
    /\ UNCHANGED <<mailbox, collection, knowledge, adding, response>>

\* config.email_collection.add(ids=[email.uid], ...) (main.py:310-314):
\* the id is the uid alone.  An id the collection already holds is left
\* as it is (or the add raises, with the other errors of the store).
CollectionAdd(coll, email) ==
    IF \E e \in coll : e.id = email.uid
    THEN coll
    ELSE coll \cup {[id |-> email.uid, document |-> email.body,
                     category |-> email.category]}

\* main.py:317: the sinks are called only for the category "Interested".
AfterStore(email) == IF email.category = "Interested" THEN "slack" ELSE "returned"

ProcessVectorAdd ==
    /\ inv.pc = "vector_add"
    /\ \/ /\ collection' = CollectionAdd(collection, inv.email)
          /\ inv' = [inv EXCEPT !.stored = TRUE, !.pc = AfterStore(inv.email)]
          /\ UNCHANGED tasks
       \/ /\ Raise(inv, "vector_add")
          /\ UNCHANGED collection
    /\ UNCHANGED <<mailbox, docs, knowledge, adding, response>>

\* notifier.send_slack_notification (main.py:189-212), called at
\* main.py:318: only SlackApiError is caught; any other exception of the
\* client (no connection, timeout) is raised.
SlackOutcomes == {"ok", "SlackApiError", "ConnectionError"}
SlackCaught(outcome) == outcome \in {"ok", "SlackApiError"}

ProcessSlack ==
    /\ inv.pc = "slack"
    /\ \E outcome \in SlackOutcomes :
        IF SlackCaught(outcome)
        THEN /\ inv' = [inv EXCEPT !.slack = outcome, !.pc = "webhook"]
             /\ UNCHANGED tasks
        ELSE Raise([inv EXCEPT !.slack = outcome], "slack")
    /\ UNCHANGED <<mailbox, docs, collection, knowledge, adding, response>>

\* notifier.trigger_webhook (main.py:214-225), called at main.py:319:
\* every Exception is caught and printed.
WebhookOutcomes == {"ok", "Exception"}

ProcessWebhook ==
    /\ inv.pc = "webhook"
    /\ \E outcome \in WebhookOutcomes :
        inv' = [inv EXCEPT !.webhook = outcome, !.pc = "returned"]
    /\ UNCHANGED <<mailbox, tasks, docs, collection, knowledge, adding, response>>

\* ------------------------------------------------------------ search
\* The words of a text: what a match query compares.
Tokens(text) == {text[i] : i \in 1..Len(text)}

\* {"match": {"body": text}} (main.py:142): the body has one of the words.
Match(body, text) == Tokens(body) \cap Tokens(text) # {}

\* `if query.account:` (main.py:145-150): None and "" give no filter.
Supplied(v) == v # None /\ v # ""

\* A request body that has lost its category filter.
FiltersWithoutCategory(query) ==
    {f \in {"account", "folder"} : Supplied(query[f])}

\* The term filters of the request body (main.py:144-150).
Filters(query) ==
    {f \in {"account", "folder", "category"} : Supplied(query[f])}

\* The must clauses of the request body (main.py:140-142).
Must(query) == IF query.text # <<>> THEN {"body"} ELSE {}

\* bool query with must and filter (main.py:152-159): a document is a hit
\* when it matches every must clause and every filter.
IsHit(doc, query) ==
    /\ \A m \in Must(query) : Match(doc[m], query.text)
    /\ \A f \in Filters(query) : doc[f] = query[f]

EsSearch(index, query) ==
    LET hitSet == {d \in BagToSet(index) : IsHit(d, query)}
    IN  [d \in hitSet |-> index[d]]

\* Email(**hit["_source"]) (main.py:162): the fields of class Email
\* (main.py:49-58); folder and category have defaults, the others are
\* required.  The stored document has "from", not "from_" (main.py:136).
EmailFields ==
    {"uid", "subject", "body", "from_", "to", "date", "folder", "account",
     "category"}
RequiredFields == EmailFields \ {"folder", "category"}

ParsesAsEmail(source) == RequiredFields \subseteq DOMAIN source

ToEmail(source) ==
    [f \in EmailFields |->
        IF f \in DOMAIN source THEN source[f]
        ELSE IF f = "folder" THEN DefaultFolder ELSE None]

\* EmailSearchService.search (main.py:139-162): the hits of the request,
\* each made an Email; a hit that does not validate raises.
Search(index, query) ==
    LET hits == EsSearch(index, query)
        emails == {ToEmail(h) : h \in BagToSet(hits)}
    IN  IF \A h \in BagToSet(hits) : ParsesAsEmail(h)
        THEN [kind |-> "search", query |-> query, hits |-> hits,
              outcome |-> "ok",
              emails |-> [e \in emails |->
                            hits[CHOOSE h \in BagToSet(hits) : ToEmail(h) = e]]]
        ELSE [kind |-> "search", query |-> query, hits |-> hits,
              outcome |-> "raised", emails |-> EmptyBag]

Queries ==
    [text : QueryTexts \cup {<<>>}, account : QueryAccounts \cup {None},
     folder : Folders \cup {None}, category : QueryCategories \cup {None}]

\* GET /emails/search (main.py:290-293).
SearchEmails(query) ==
    /\ LoopFree
    /\ response' = Search(docs, query)
    /\ UNCHANGED <<mailbox, tasks, inv, docs, collection, knowledge, adding>>

\* The endpoint returns: the response (or the error) goes to the client.
SendResponse ==
    /\ response # NoResponse
    /\ response' = NoResponse
    /\ UNCHANGED <<mailbox, tasks, inv, docs, collection, knowledge, adding>>

\* ---------------------------------------------------- reply suggestor
\* self.embedder.encode(text) (main.py:233, 242): a fixed-length vector
\* that depends on the text alone; here the count of each word of the
\* vocabulary.
Vocabulary == <<"demo", "tuesday", "pricing", "booking", "plan">>

Count(text, w) == Cardinality({i \in 1..Len(text) : text[i] = w})

Embed(text) == [k \in 1..Len(Vocabulary) |-> Count(text, Vocabulary[k])]

\* The squared L2 distance, the metric of a collection made without
\* metadata (main.py:38).
RECURSIVE DistUpTo(_, _, _)
DistUpTo(u, v, k) ==
    IF k = 0 THEN 0
    ELSE DistUpTo(u, v, k - 1) + (u[k] - v[k]) * (u[k] - v[k])

Distance(u, v) == DistUpTo(u, v, Len(u))

\* A collection that takes a snippet under an id it already holds.
CollectionAppend(kb, id, text) ==
    Append(kb, [id |-> id, document |-> text, embedding |-> Embed(text)])

\* self.collection.add(ids=[id], documents=[text], embeddings=[...])
\* (main.py:234-238): a new snippet; the collection holds one snippet per
\* id, and an add under an id it holds leaves it as it is.
CollectionAddSnippet(kb, id, text) ==
    IF \E i \in 1..Len(kb) : kb[i].id = id
    THEN kb
    ELSE Append(kb, [id |-> id, document |-> text, embedding |-> Embed(text)])

\* str(len(self.collection.get()["ids"]) + 1) (main.py:235).
NextId(kb) == ToString(Len(kb) + 1)

\* self.collection.add (main.py:232-238): the id is the number of ids in
\* the collection plus one.
AddSnippet(kb, text) == CollectionAddSnippet(kb, NextId(kb), text)

\* ReplySuggestor.add_knowledge (main.py:232-238); called once when the
\* module is loaded (main.py:278-281).
AddKnowledge(text) ==
    /\ LoopFree
    /\ Len(knowledge) < MaxKnowledge
    /\ knowledge' = AddSnippet(knowledge, text)
    /\ UNCHANGED <<mailbox, tasks, inv, docs, collection, adding, response>>

\* add_knowledge called from several callers at a time: the argument
\* ids=[...] of main.py:235 is computed from the ids the collection has
\* at that moment ...
AddKnowledgeReadIds(c, text) ==
    /\ adding[c] = NoAdd
    /\ Len(knowledge) < MaxKnowledge
    /\ adding' = [adding EXCEPT ![c] = [id |-> NextId(knowledge), text |-> text]]
    /\ UNCHANGED <<mailbox, tasks, inv, docs, collection, knowledge, response>>

\* ... and self.collection.add (main.py:234) runs with that id, after
\* whatever the other callers have added in between.
AddKnowledgeAdd(c) ==
    /\ adding[c] # NoAdd
    /\ knowledge' = CollectionAddSnippet(knowledge, adding[c].id, adding[c].text)
    /\ adding' = [adding EXCEPT ![c] = NoAdd]
    /\ UNCHANGED <<mailbox, tasks, inv, docs, collection, response>>

\* self.collection.query(query_embeddings=[q], n_results=1)
\* (main.py:243-246): the positions of the snippets at the least distance;
\* results["documents"][0] has one of them, or nothing when the
\* collection is empty.
Nearest(kb, q) ==
    {i \in 1..Len(kb) :
        \A j \in 1..Len(kb) :
            Distance(kb[i].embedding, q) <= Distance(kb[j].embedding, q)}

\* The chat completion of main.py:262-266: a text, or an error.
GenerationOutcomes == {"ok", "error"}

\* A suggest_reply that answers an empty reply when the model call fails.
SuggestReplyWithFallback(kb, email, pick, generation) ==
    IF Nearest(kb, Embed(email.body)) = {}
    THEN [kind |-> "reply", body |-> email.body, snippets |-> Len(kb),
          context |-> None, modelCalled |-> FALSE, generation |-> None,
          outcome |-> "raised", reply |-> None]
    ELSE [kind |-> "reply", body |-> email.body, snippets |-> Len(kb),
          context |-> kb[pick].id, modelCalled |-> TRUE,
          generation |-> generation, outcome |-> "ok",
          reply |-> IF generation = "ok" THEN "generated" ELSE ""]

\* ReplySuggestor.suggest_reply (main.py:240-268).  context is
\* results["documents"][0][0] (main.py:248): with no result the index is
\* out of range and the call raises before the model is asked.  An error
\* of the model call is raised too.
SuggestReplyResult(kb, email, pick, generation) ==
    IF Nearest(kb, Embed(email.body)) = {}
    THEN [kind |-> "reply", body |-> email.body, snippets |-> Len(kb),
          context |-> None, modelCalled |-> FALSE, generation |-> None,
          outcome |-> "raised", reply |-> None]
    ELSE IF generation = "ok"
    THEN [kind |-> "reply", body |-> email.body, snippets |-> Len(kb),
          context |-> kb[pick].id, modelCalled |-> TRUE, generation |-> "ok",
          outcome |-> "ok", reply |-> "generated"]
    ELSE [kind |-> "reply", body |-> email.body, snippets |-> Len(kb),
          context |-> kb[pick].id, modelCalled |-> TRUE, generation |-> "error",
          outcome |-> "raised", reply |-> None]

\* The endpoint /emails/suggest-reply (main.py:295-298): {"reply": text}
\* with status 200; an exception of suggest_reply is caught by nothing, and
\* the framework answers 500 with a body that is not JSON.
ReplyEndpoint(result) ==
    IF result.outcome = "ok"
    THEN [status |-> 200, json |-> TRUE, reply |-> result.reply]
    ELSE [status |-> 500, json |-> FALSE, reply |-> None]

\* suggest_reply of the frontend (frontend.py:20-22):
\* response.json().get("reply", ""); json() raises on a body that is not
\* JSON.
FrontendSuggestReply(http) ==
    IF ~http.json THEN "JSONDecodeError"
    ELSE IF http.reply # None THEN http.reply
    ELSE ""

\* POST /emails/suggest-reply (main.py:295-298).
SuggestReply(body) ==
    /\ LoopFree
    /\ LET near == Nearest(knowledge, Embed(body))
       IN  \E pick \in (IF near = {} THEN {0} ELSE near) :
           \E generation \in GenerationOutcomes :
             response' = SuggestReplyResult(knowledge, Email(None, None, body),
                                            pick, generation)
    /\ UNCHANGED <<mailbox, tasks, inv, docs, collection, knowledge, adding>>

\* ----------------------------------------------------- specification
Next ==
    \/ \E a \in Accounts : ConnectAccount(a)
    \/ \E a \in Accounts, b \in Bodies : MailArrives(a, b)
    \/ \E t \in TaskIds : IdleFetch(t)
    \/ \E t \in TaskIds : Callback(t)
    \/ \E t \in TaskIds : IdleSleep(t)
    \/ \E t \in TaskIds : IdleRaised(t)
    \/ ProcessCategorize
    \/ ProcessIndex
    \/ ProcessVectorAdd
    \/ ProcessSlack
    \/ ProcessWebhook
    \/ \E q \in Queries : SearchEmails(q)
    \/ SendResponse

Spec == Init /\ [][Next]_vars

\* The steps the event loop takes by itself: a task whose wait has a
\* response is resumed, and a process_new_email call, a plain function,
\* runs on to its return or its exception.  Connections, arriving mail and
\* requests are the environment's: nothing makes them happen.
ProgramStep ==
    \/ \E t \in TaskIds : IdleFetch(t)
    \/ \E t \in TaskIds : Callback(t)
    \/ \E t \in TaskIds : IdleSleep(t)
    \/ \E t \in TaskIds : IdleRaised(t)
    \/ ProcessCategorize
    \/ ProcessIndex
    \/ ProcessVectorAdd
    \/ ProcessSlack
    \/ ProcessWebhook

\* The pipeline by itself: the idle tasks and process_new_email, with no
\* request to the search endpoint (which changes nothing of their state).
NextPipeline ==
    \/ \E a \in Accounts : ConnectAccount(a)
    \/ \E a \in Accounts, b \in Bodies : MailArrives(a, b)
    \/ ProgramStep

SpecFair == Init /\ [][NextPipeline]_vars /\ WF_vars(ProgramStep)

\* The reply suggestor shares no state with the pipeline: its operations
\* are checked on their own.
NextReply ==
    \/ \E x \in KnowledgeTexts : AddKnowledge(x)
    \/ \E c \in Callers, x \in KnowledgeTexts : AddKnowledgeReadIds(c, x)
    \/ \E c \in Callers : AddKnowledgeAdd(c)
    \/ \E b \in Bodies : SuggestReply(b)
    \/ SendResponse

SpecReply == Init /\ [][NextReply]_vars

\* ================================================================ claims
\* The documents of the index that have the key (account, uid).
DocsOfKey(a, u) ==
    LET keyed == {d \in BagToSet(docs) : d.account = a /\ d.uid = u}
    IN  [d \in keyed |-> docs[d]]

CallEnded == inv.pc \in {"returned", "raised"}

SinksCalled == inv.slack # None \/ inv.webhook # None

\* C1 - Idempotence of ingestion: when process_new_email has run to its end
\* on an email, however many times it has run on that (account, uid)
\* before, the index holds exactly one document for that (account, uid),
\* and it is the document of this run.
C1_IdempotentIngestion ==
    inv.pc = "returned" =>
        LET keyed == DocsOfKey(inv.email.account, inv.email.uid)
        IN  /\ BagCardinality(keyed) = 1
            /\ BagIn(Doc(inv.email), keyed)

\* C2 - Classification closure: the category of every document of the
\* index is a label of the closed enumeration.
C2_ClassificationClosure ==
    \A d \in BagToSet(docs) : d.category \in CategoryLabels

\* C3 - Notification gating: a call of process_new_email that has ended
\* has called a notification sink if and only if the label it attached to
\* the email is Interested.
C3_NotificationGating ==
    CallEnded => (SinksCalled <=> inv.email.category = "Interested")

\* C4 - Classification failure never aborts indexing: a call whose
\* categorizer call failed has ended with the email in the index under the
\* category Uncategorized, and has called no sink.
C4_ClassifyFailureStillIndexes ==
    (CallEnded /\ inv.raisedAt = "categorize") =>
        /\ inv.indexed
        /\ \E d \in BagToSet(DocsOfKey(inv.email.account, inv.email.uid)) :
                d.category = "Uncategorized"
        /\ ~SinksCalled

\* C5 - Sink isolation: a call that has called the chat sink has, at its
\* end, called the webhook sink as well, whatever the chat sink did, and
\* has returned rather than raised.
C5_SinkIsolation ==
    (CallEnded /\ inv.slack # None) =>
        /\ inv.webhook # None
        /\ inv.pc = "returned"

\* C6 - Same-key concurrency safety: a message that has arrived once (one
\* mailbox event, so each idle task of the account hands it to
\* process_new_email at most once) is, once the tasks are back in their
\* wait, in the index at most once, as after a single run.
C6_SameKeySafe ==
    \A a \in Accounts :
        (LoopFree /\ Len(mailbox[a]) = 1) =>
            BagCardinality(DocsOfKey(a, "1")) <= 1

\* C7 - Empty knowledge base: suggest_reply called on a knowledge
\* collection without snippets does not raise: it calls the model with no
\* context and returns the generated text when the model gives one.
C7_EmptyKnowledgeReplies ==
    (response.kind = "reply" /\ response.snippets = 0) =>
        /\ response.modelCalled
        /\ response.context = None

\* A record satisfies the filters and the text term a query supplies.
Satisfies(d, q) ==
    /\ q.account # None => d.account = q.account
    /\ q.folder # None => d.folder = q.folder
    /\ q.category # None => d.category = q.category
    /\ q.text # <<>> =>
          \E i \in 1..Len(d.body), j \in 1..Len(q.text) : d.body[i] = q.text[j]

\* C8 - Search filter conjunction: every document the request of search
\* selects, and every record search returns, satisfies each filter the
\* query supplies among account, folder and category, and has a word of
\* the text term when one is given.
C8_FilterConjunction ==
    response.kind = "search" =>
        \A d \in BagToSet(response.hits) \cup BagToSet(response.emails) :
            Satisfies(d, response.query)

\* A search with an account and a category filter that selects a document
\* while the index holds a document of that account under another category.
C8_Witness ==
    /\ response.kind = "search"
    /\ response.query.account # None
    /\ response.query.category # None
    /\ response.hits # EmptyBag
    /\ \E d \in BagToSet(docs) :
          /\ d.account = response.query.account
          /\ d.category # response.query.category

\* What the caller of process_new_email has in hand when the call is over.
Outcome(call) ==
    IF call.pc = "returned" THEN "Success"
    ELSE IF call.pc = "raised" THEN "UncaughtException"
    ELSE None

\* C9 - Every invocation yields an outcome: a call of process_new_email
\* that has ended has given its caller Success or PartialFailure.
C9_EveryCallYieldsOutcome ==
    CallEnded => Outcome(inv) \in {"Success", "PartialFailure"}

\* C10 - Index write retry: a call that has ended on a failure of the
\* index write has made 3 attempts to write, and the email keeps the label
\* of the classify step.
C10_IndexWriteRetried ==
    (CallEnded /\ inv.raisedAt = "index") =>
        /\ inv.indexAttempts = 3
        /\ inv.email.category # None

\* C13 - Context-store failure is contained: a call that has written the
\* index and whose add to the content store has failed has not been
\* aborted: it has returned, the document is in the index, and for the
\* label Interested the sinks have been called.
C13_ContextStoreFailureContained ==
    (CallEnded /\ inv.indexed /\ ~inv.stored) =>
        /\ inv.pc = "returned"
        /\ BagIn(Doc(inv.email), docs)
        /\ inv.email.category = "Interested" => SinksCalled

\* The idle tasks started for an account, the ended ones included.
TasksOf(a) == {t \in TaskIds : tasks[t].account = a}

\* C15 - Single invocation per email: when the only idle task of an
\* account enters process_new_email for an email, no earlier invocation
\* for that (account, uid) has taken place: the index has no document of
\* the key yet.
C15_InvokedOncePerEmail ==
    (inv.pc = "categorize" /\ Cardinality(TasksOf(inv.email.account)) = 1) =>
        DocsOfKey(inv.email.account, inv.email.uid) = EmptyBag

\* C18 - Stage ordering: in a call the stages run in the order classify,
\* index, vectorize, notify: the index is written with a label attached,
\* the content store after the index, the chat sink after both and the
\* webhook after the chat sink; when a sink is called the document with
\* the final label is in the index.
C18_StageOrdering ==
    /\ inv.indexAttempts > 0 => inv.email.category # None
    /\ inv.stored => inv.indexed
    /\ inv.slack # None => inv.indexed /\ inv.stored
    /\ inv.webhook # None => inv.slack # None
    /\ SinksCalled => BagIn(Doc(inv.email), docs)

\* A chat sink has been called for an email whose document, under the
\* label Interested, is in the index and whose body is in the content store.
C18_Witness ==
    /\ inv.slack # None
    /\ inv.email.category = "Interested"
    /\ BagIn(Doc(inv.email), docs)
    /\ inv.stored

\* C19 - Batch failure isolation: an email leaves the batch of an idle
\* task only by being handed to process_new_email, and no idle task ends:
\* a failure on one email stops neither the rest of the batch nor the
\* later batches.
C19_BatchFailureIsolation ==
    [][\A t \in TaskIds :
          /\ tasks'[t].pc # "dead"
          /\ (tasks[t].pc = "batch" /\ tasks'[t].batch # tasks[t].batch) =>
                /\ tasks'[t].batch = Tail(tasks[t].batch)
                /\ inv'.pc = "categorize"
                /\ inv'.email = Head(tasks[t].batch)]_vars

\* C20 - Cross-account independence: when an (account, uid) has been
\* processed for the first time and the add to the content store has
\* returned, the store has an entry of that uid with the body and the
\* label of this email, whatever other account has an email of the same
\* uid.
C20_CrossAccountIndependence ==
    (inv.stored
        /\ BagCardinality(DocsOfKey(inv.email.account, inv.email.uid)) = 1) =>
        \E e \in collection :
            /\ e.id = inv.email.uid
            /\ e.document = inv.email.body
            /\ e.category = inv.email.category

\* The uids the mailboxes give out.
MailUids == {ToString(i) : i \in 1..MaxMail}

\* C14 - At-least-once notification: an email that process_new_email has
\* labelled Interested leads to a call of the sinks for that email,
\* whatever the index and the content store do.
C14_AtLeastOnceNotification ==
    \A a \in Accounts, u \in MailUids :
        (inv.email.account = a /\ inv.email.uid = u
            /\ inv.email.category = "Interested")
        ~> (inv.email.account = a /\ inv.email.uid = u /\ SinksCalled)

DistanceTo(i) == Distance(knowledge[i].embedding, Embed(response.body))

\* C11 - Retrieval determinism for k=1: the snippet suggest_reply takes as
\* context is a snippet at the least distance of the query embedding, and
\* among the snippets at that distance it is the one added first.  (The
\* collection only grows: while it has the length it had at the query, it
\* is the collection that was queried.)
C11_NearestThenEarliest ==
    (response.kind = "reply" /\ response.context # None
        /\ Len(knowledge) = response.snippets) =>
        \E i \in 1..Len(knowledge) :
            /\ knowledge[i].id = response.context
            /\ \A j \in 1..Len(knowledge) :
                  /\ DistanceTo(i) <= DistanceTo(j)
                  /\ DistanceTo(j) = DistanceTo(i) => i <= j

\* C12 - Reply unavailability is visible: when the model call of
\* suggest_reply fails, the call raises, the endpoint answers an error and
\* no reply, and the frontend gets neither an empty nor a made-up reply;
\* a reply that is returned is the model's text.
C12_ReplyUnavailableVisible ==
    response.kind = "reply" =>
        /\ response.generation = "error" =>
              /\ response.outcome = "raised"
              /\ ReplyEndpoint(response).status # 200
              /\ ReplyEndpoint(response).reply = None
              /\ FrontendSuggestReply(ReplyEndpoint(response))
                    \notin {"", "generated"}
        /\ response.outcome = "ok" =>
              /\ response.generation = "ok"
              /\ FrontendSuggestReply(ReplyEndpoint(response)) = "generated"

\* A reply was asked for, a context was found, and the model call failed.
C12_Witness ==
    /\ response.kind = "reply"
    /\ response.context # None
    /\ response.generation = "error"

\* The number an id is the string of.
IdNumber(id) == CHOOSE n \in 1..(MaxKnowledge + 1) : ToString(n) = id

====
